---- MODULE Spec2Model ----
(***************************************************************************)
(* The file-backed memory record store of LCT-commit:                      *)
(*   scripts/agent_memory_integration.py  LCTMemorySystem                  *)
(*   scripts/cleanup_memories.py          the two maintenance sweeps       *)
(*   scripts/memory_analytics.py          the read-only aggregation        *)
(*   scripts/init-memory-system.py        the bootstrap of memory/         *)
(*                                                                         *)
(* A record file is a JSON document; a JSON object is modelled as a        *)
(* function whose domain is its set of keys.  Timestamps (datetime.now()   *)
(* and its isoformat() text, which orders as the instants do) are clock    *)
(* ticks; the id's strftime('%Y%m%d_%H%M%S') keeps whole seconds only.     *)
(***************************************************************************)
EXTENDS Integers, Sequences, FiniteSets, TLC

\* ------------------------------------------------------------------ bounds

\* clock ticks in one second: created_at is finer than the id's timestamp
TicksPerSecond == 2
\* how many steps (calls and clock advances) one run makes
MaxSteps == 4

\* ------------------------------------------------------- program constants

\* timedelta(hours=24)
ExpiryHours == 24
\* the default "2025-01-01T00:00:00" of the expiry sweep, as a tick
Epoch == 0
\* access_count < 2
LowValueAccess == 2

ExpiryTicks == ExpiryHours * 3600 * TicksPerSecond

\* The scripts postdate 2025-01-02: every run starts more than 24 h after Epoch.
StartNow == Epoch + 2 * ExpiryTicks

\* ------------------------------------------------------------ JSON objects

\* Python's None (a falsy argument)
None == "<None>"

EmptyDict == [k \in {} |-> k]

\* d.get(k, default)
Get(d, k, default) == IF k \in DOMAIN d THEN d[k] ELSE default

\* {**base, **over}  /  base.update(over)
Merge(base, over) ==
    [k \in (DOMAIN base) \cup (DOMAIN over) |->
        IF k \in DOMAIN over THEN over[k] ELSE base[k]]

\* d[k] = v
Put(d, k, v) == [j \in (DOMAIN d) \cup {k} |-> IF j = k THEN v ELSE d[j]]

\* d restricted to the keys outside ks
Without(d, ks) == [k \in (DOMAIN d) \ ks |-> d[k]]

\* x in list
InList(x, list) == \E i \in DOMAIN list : list[i] = x

\* the keys under which a caller passes a value json.dump cannot encode (a
\* datetime, a set)
OpaqueKeys == {"due"}

\* json.dump(memory_data, f) runs to its end
CanDump(memory_data) ==
    /\ DOMAIN memory_data.content \cap OpaqueKeys = {}
    /\ DOMAIN memory_data.metadata \cap OpaqueKeys = {}

\* the text of a file that open(filepath, 'w') emptied and json.dump left
\* unfinished: not a JSON document
Truncated == [truncated |-> TRUE]

\* json.load(f) returns
IsJson(doc) == "truncated" \notin DOMAIN doc

\* -------------------------------------------------------------- the layout

\* create_memory_structure: the directories under memory/
Directories == {"project", "development", "sessions", "shared", "agents"}

\* the directories iterdir() yields that pass `name != "agents"`
ScanDirs == Directories \ {"agents"}

\* create_initial_memories: the four records written at bootstrap (each
\* description is cut to its opening words; no operation reads it)
initial_memories ==
    << [memory_id |-> "project_lct_context_001",
        category |-> "project",
        type |-> "decision",
        content |-> [title |-> "LCT-Vitraya Partnership Context",
                     description |-> "Healthcare claims adjudication system",
                     context |-> "Critical business context for all agents",
                     tags |-> <<"business", "partnership", "goals">>,
                     priority |-> "high"],
        metadata |-> [lct_criteria |-> "all",
                      business_impact |-> "high",
                      technical_complexity |-> "high",
                      user_skill_level |-> "beginner"]],
       [memory_id |-> "project_success_criteria_001",
        category |-> "project",
        type |-> "decision",
        content |-> [title |-> "31 Success Criteria Framework",
                     description |-> "31 evaluation criteria across 5 categories",
                     context |-> "Core success framework for all agents",
                     tags |-> <<"criteria", "priority", "framework">>,
                     priority |-> "high"],
        metadata |-> [lct_criteria |-> "all",
                      business_impact |-> "high",
                      technical_complexity |-> "medium",
                      user_skill_level |-> "beginner"]],
       [memory_id |-> "development_invoice_precedence_001",
        category |-> "development",
        type |-> "pattern",
        content |-> [title |-> "Invoice Amount Precedence Pattern",
                     description |-> "Invoice amount precedence",
                     context |-> "Financial validation logic",
                     tags |-> <<"invoice", "validation", "precedence">>,
                     priority |-> "high"],
        metadata |-> [lct_criteria |-> "4",
                      business_impact |-> "high",
                      technical_complexity |-> "medium",
                      user_skill_level |-> "beginner"]],
       [memory_id |-> "development_teaching_approach_001",
        category |-> "development",
        type |-> "pattern",
        content |-> [title |-> "Beginner-Friendly Teaching Pattern",
                     description |-> "Small incremental steps",
                     context |-> "Teaching approach for beginner users",
                     tags |-> <<"teaching", "beginner", "methodology">>,
                     priority |-> "high"],
        metadata |-> [lct_criteria |-> "all",
                      business_impact |-> "medium",
                      technical_complexity |-> "low",
                      user_skill_level |-> "beginner"]] >>

\* memory_dir.iterdir(): the order is the file system's; the two that differ in
\* which of project and development comes first
DirOrders ==
    { <<"agents", "project", "development", "sessions", "shared">>,
      <<"development", "project", "shared", "sessions", "agents">> }

\* memories_dir = project_root / "memory" / "project": where bootstrap writes all four
initial_memories_dir == "project"

\* ------------------------------------------------------------------- state

VARIABLES
    files,      \* the record files: <<directory, file stem>> -> JSON document
    now,        \* datetime.now(), in ticks
    dirOrder,   \* the order in which memory_dir.iterdir() yields the directories
    last,       \* the last call: its name, arguments and outcome
    steps,      \* calls and clock advances so far
    held,       \* per process: the call it is in, with the document it has read
    run         \* the test script being run: its position, tallies and exit status

vars == <<files, now, dirOrder, last, steps, held, run>>

\* the operating-system processes that use memory/ at the same time
Processes == {"p1", "p2"}

\* open(filepath, 'w'); json.dump
WriteFile(fs, path, doc) ==
    [p \in (DOMAIN fs) \cup {path} |-> IF p = path THEN doc ELSE fs[p]]

\* memory_file.unlink() for every path of gone
Unlink(fs, gone) == [p \in (DOMAIN fs) \ gone |-> fs[p]]

\* search_dir.glob("*.json")
Glob(fs, dir) == {p \in DOMAIN fs : p[1] = dir}

\* ------------------------------------------------------- LCTMemorySystem

\* an id that keeps the clock's full resolution
MemoryId_fine(category, memory_type, t) ==
    category \o "_" \o memory_type \o "_" \o ToString(t)

\* f"{category}_{memory_type}_{datetime.now().strftime('%Y%m%d_%H%M%S')}"
MemoryId(category, memory_type, t) ==
    category \o "_" \o memory_type \o "_" \o ToString(t \div TicksPerSecond)

\* the document with the stamps laid over the caller's metadata
MemoryData_stamped_last(category, memory_type, content, metadata, agent, t) ==
    [memory_id |-> MemoryId(category, memory_type, t),
     category |-> category,
     type |-> memory_type,
     content |-> Merge(content,
                       [created_at |-> t, last_updated |-> t, access_count |-> 0]),
     metadata |-> Merge(metadata,
                        [agent |-> agent, created_by |-> agent,
                         last_updated_by |-> agent])]

\* add_memory: the memory_data document it builds at time t
MemoryData(category, memory_type, content, metadata, agent, t) ==
    [memory_id |-> MemoryId(category, memory_type, t),
     category |-> category,
     type |-> memory_type,
     content |-> Merge(content,
                       [created_at |-> t, last_updated |-> t, access_count |-> 0]),
     metadata |-> Merge([agent |-> agent, created_by |-> agent,
                         last_updated_by |-> agent],
                        metadata)]

\* the path with the file named after the record's type
SavePath_type(memory_data) == <<memory_data.category, memory_data.type>>

\* _save_memory_file: the path it opens for writing
SavePath(memory_data) == <<memory_data.category, memory_data.memory_id>>

\* _save_memory_file: open(filepath, 'w') succeeds only in an existing directory
CanSave(memory_data) == memory_data.category \in Directories

\* a save that moves the record: no other file of its id is left
_save_memory_file_moving(fs, memory_data) ==
    LET path == SavePath(memory_data)
    IN  [p \in {q \in (DOMAIN fs) \cup {path} : q[2] = path[2] => q = path} |->
            IF p = path THEN memory_data ELSE fs[p]]

\* _save_memory_file: the file holds the document, or what json.dump wrote
\* of it before it raised TypeError
_save_memory_file(fs, memory_data) ==
    WriteFile(fs, SavePath(memory_data),
              IF CanDump(memory_data) THEN memory_data ELSE Truncated)

\* _find_memory_file: the first directory, in iterdir() order, that is not
\* "agents" and holds {memory_id}.json; None when there is none
_find_memory_file(fs, order, memory_id) ==
    LET hits == {i \in DOMAIN order :
                    order[i] # "agents" /\ <<order[i], memory_id>> \in DOMAIN fs}
    IN  IF hits = {} THEN None
        ELSE LET first == CHOOSE i \in hits : \A j \in hits : i <= j
             IN  <<order[first], memory_id>>

\* the filter with a tag test that wants every requested tag
_matches_criteria_all(memory, category, memory_type, tags, agent) ==
    /\ ~(category # None /\ Get(memory, "category", None) # category)
    /\ ~(memory_type # None /\ Get(memory, "type", None) # memory_type)
    /\ ~(agent # None /\ Get(Get(memory, "metadata", EmptyDict), "agent", None) # agent)
    /\ ~(tags # <<>> /\
         LET memory_tags == Get(Get(memory, "content", EmptyDict), "tags", <<>>)
         IN  ~(\A i \in DOMAIN tags : InList(tags[i], memory_tags)))

\* _matches_criteria
_matches_criteria(memory, category, memory_type, tags, agent) ==
    /\ ~(category # None /\ Get(memory, "category", None) # category)
    /\ ~(memory_type # None /\ Get(memory, "type", None) # memory_type)
    /\ ~(agent # None /\ Get(Get(memory, "metadata", EmptyDict), "agent", None) # agent)
    /\ ~(tags # <<>> /\
         LET memory_tags == Get(Get(memory, "content", EmptyDict), "tags", <<>>)
         IN  ~(\E i \in DOMAIN tags : InList(tags[i], memory_tags)))

\* get_memories: the directories it searches, in order
SearchDirs(order, category) ==
    IF category # None THEN <<category>>
    ELSE SelectSeq(order, LAMBDA d : d # "agents")

\* get_memories: the files whose documents pass the filters
Matching(fs, order, category, memory_type, tags, agent) ==
    {p \in DOMAIN fs :
        /\ InList(p[1], SearchDirs(order, category))
        /\ _matches_criteria(fs[p], category, memory_type, tags, agent)}

\* position of a file's directory in the search order
DirIndex(dirs, p) == CHOOSE i \in DOMAIN dirs : dirs[i] = p[1]

\* memories.sort(key=created_at, reverse=True): every order the stable sort can
\* give.  The list is built directory by directory, each directory's files in
\* glob order (unspecified), so equal keys stay in directory order.
RECURSIVE SortedNewestFirst(_, _, _)
SortedNewestFirst(fs, dirs, paths) ==
    IF paths = {} THEN {<<>>}
    ELSE LET newest == {p \in paths : \A q \in paths :
                            fs[q].content.created_at <= fs[p].content.created_at}
             heads == {p \in newest : \A q \in newest :
                            DirIndex(dirs, p) <= DirIndex(dirs, q)}
         IN  UNION {{<<fs[p]>> \o s : s \in SortedNewestFirst(fs, dirs, paths \ {p})}
                    : p \in heads}

\* memories[:limit]
Slice(s, limit) == SubSeq(s, 1, IF Len(s) < limit THEN Len(s) ELSE limit)

\* a retrieve that leaves records without created_at out of the sort
GetMemories_lenient(fs, order, category, memory_type, tags, agent, limit) ==
    LET found == Matching(fs, order, category, memory_type, tags, agent)
        dated == {p \in found : "created_at" \in DOMAIN fs[p].content}
    IN  {[raised |-> FALSE, value |-> Slice(s, limit)] :
            s \in SortedNewestFirst(fs, SearchDirs(order, category), dated)}

\* a retrieve that opens the category's directory without `search_dir.exists()`
GetMemories_unguarded(fs, order, category, memory_type, tags, agent, limit) ==
    LET found == Matching(fs, order, category, memory_type, tags, agent)
    IN  IF \/ category \notin Directories \cup {None}
           \/ \E p \in found : "created_at" \notin DOMAIN fs[p].content
        THEN {[raised |-> TRUE, value |-> <<>>]}
        ELSE {[raised |-> FALSE, value |-> Slice(s, limit)] :
                s \in SortedNewestFirst(fs, SearchDirs(order, category), found)}

\* get_memories: its possible outcomes; json.load raises on a file that is not
\* JSON, and x["content"]["created_at"] raises KeyError when a surviving record
\* has no such key
GetMemories(fs, order, category, memory_type, tags, agent, limit) ==
    LET found == Matching(fs, order, category, memory_type, tags, agent)
        loaded == {p \in DOMAIN fs : InList(p[1], SearchDirs(order, category))}
    IN  IF \/ \E p \in loaded : ~IsJson(fs[p])
           \/ \E p \in found : "created_at" \notin DOMAIN fs[p].content
        THEN {[raised |-> TRUE, value |-> <<>>]}
        ELSE {[raised |-> FALSE, value |-> Slice(s, limit)] :
                s \in SortedNewestFirst(fs, SearchDirs(order, category), found)}

\* update_memory: the document after the two update blocks
Updated(memory, updates, agent, t) ==
    LET c == IF "content" \in DOMAIN updates
             THEN Put(Merge(memory.content, updates.content), "last_updated", t)
             ELSE memory.content
        m == IF "metadata" \in DOMAIN updates
             THEN Put(Merge(memory.metadata, updates.metadata), "last_updated_by", agent)
             ELSE memory.metadata
    IN  [memory EXCEPT !.content = c, !.metadata = m]

\* increment_access: the document after the two assignments
Accessed(memory, t) ==
    [memory EXCEPT !.content =
        Put(Put(memory.content, "access_count",
                Get(memory.content, "access_count", 0) + 1),
            "last_accessed", t)]

\* ------------------------------------------------------- cleanup_memories.py

\* the expiry test with its comparison turned round
IsExpired_flipped(memory, t) == t - Get(memory, "created_at", Epoch) < ExpiryTicks

\* cleanup_expired_memories: the test of one sessions file
IsExpired(memory, t) == t - Get(memory, "created_at", Epoch) > ExpiryTicks

\* the low-value test with an inclusive bound on access_count
IsLowValue_inclusive(memory) ==
    LET content == Get(memory, "content", EmptyDict)
        access_count == Get(content, "access_count", 0)
        priority == Get(content, "priority", "medium")
    IN  access_count <= LowValueAccess /\ priority = "low"

\* cleanup_low_value_memories: the test of one file
IsLowValue(memory) ==
    LET content == Get(memory, "content", EmptyDict)
        access_count == Get(content, "access_count", 0)
        priority == Get(content, "priority", "medium")
    IN  access_count < LowValueAccess /\ priority = "low"

\* cleanup_low_value_memories: for category in [...]
LowValueCategories == {"development", "sessions"}

\* ------------------------------------------------------ memory_analytics.py

\* a defaultdict(int) after `d[key[file]] += 1` for every file
Tally(key) ==
    [k \in {key[p] : p \in DOMAIN key} |->
        Cardinality({p \in DOMAIN key : key[p] = k})]

\* analyze_memory_usage: the stats it returns.  Every directory of memory/ is
\* read, agents/ too, whose files lie one level deeper than glob("*.json") looks.
Stats(fs) ==
    LET paths == DOMAIN fs
    IN  [total_memories |-> Cardinality(paths),
         by_category |-> Tally([p \in paths |-> p[1]]),
         by_type |-> Tally([p \in paths |-> Get(fs[p], "type", "unknown")]),
         by_agent |-> Tally([p \in paths |->
                        Get(Get(fs[p], "metadata", EmptyDict), "agent", "unknown")]),
         by_priority |-> Tally([p \in paths |->
                        Get(Get(fs[p], "content", EmptyDict), "priority", "unknown")])]

\* ------------------------------------------------------------ the inputs

AddCategories == {"project", "development", "sessions"}

Types == {"decision"}

LowContent == [title |-> "Test Memory", tags |-> <<"invoice">>, priority |-> "low"]

\* a content whose caller gives no priority
PlainContent == [title |-> "Note", tags |-> <<"security", "test">>]

Contents == {LowContent, PlainContent}

\* a content with a value json.dump cannot encode
OpaqueContent == [title |-> "Deadline", tags |-> <<"test">>, priority |-> "low",
                  due |-> "datetime(2025, 10, 7)"]

\* a caller's metadata that names an agent other than the agent argument
SentinelMetadata == [agent |-> "sentinel", impact |-> "medium"]

\* metadata=None is `metadata or {}`
Metadatas == { EmptyDict, SentinelMetadata }

\* the creates made: which metadata goes with which content
AddInputs ==
    { [content |-> LowContent, metadata |-> EmptyDict],
      [content |-> PlainContent, metadata |-> SentinelMetadata] }

\* agent="system" is add_memory's default
AddAgents == {"system"}

UpdateAgents == {"sentinel"}

PriorityLow == [content |-> [priority |-> "low"]]

UpdateSets ==
    { PriorityLow,
      [content |-> [access_count |-> 0, created_at |-> Epoch]],
      [metadata |-> [impact |-> "low"]],
      EmptyDict }

\* "archive" is a category whose directory was never created
QueryCategories == {"project", "sessions", "archive"}

TagLists == { <<"invoice", "security">> }

Limits == {2}

\* the retrieves made: one category and type, tags alone, or tags and the agent
\* (None: no filter)
Queries ==
    {[category |-> c, type |-> t, tags |-> <<>>, agent |-> None] :
        c \in QueryCategories, t \in Types}
    \cup {[category |-> None, type |-> None, tags |-> tags, agent |-> None] :
            tags \in TagLists}
    \cup {[category |-> None, type |-> None, tags |-> <<"invoice", "urgent">>,
            agent |-> a] : a \in AddAgents}

\* an id of no file, of a category without a directory
UnknownId == "archive_decision_0"

\* the ids a caller passes: one bootstrap record of each category, every record
\* a call has written, and one id of no file
TargetIds(fs) ==
    {"development_invoice_precedence_001", UnknownId}
    \cup {p[2] : p \in {q \in DOMAIN fs :
                            IsJson(fs[q]) /\ "created_at" \in DOMAIN fs[q].content}}

\* one tick, or 24 hours
TickSizes == {1, ExpiryTicks}

\* ------------------------------------------------------------- the actions

Init ==
    /\ files = [p \in {<<initial_memories_dir, initial_memories[i].memory_id>> :
                        i \in DOMAIN initial_memories} |->
                  LET i == CHOOSE j \in DOMAIN initial_memories :
                                initial_memories[j].memory_id = p[2]
                  IN  initial_memories[i]]
    /\ now = StartNow
    /\ dirOrder \in DirOrders
    /\ last = [op |-> "init"]
    /\ steps = 0
    /\ held = [i \in Processes |-> [pc |-> "idle"]]
    /\ run = [script |-> "none", state |-> "none"]

\* one more step of a bounded run
Bounded == steps < MaxSteps /\ steps' = steps + 1

\* a call that runs from its first line to its last with no other process
\* touching memory/ in between
Atomic == Bounded /\ UNCHANGED <<held, run>>

\* the clock advances between calls
Tick(d) ==
    /\ Atomic
    /\ now' = now + d
    /\ last' = [op |-> "tick", at |-> now + d]
    /\ UNCHANGED <<files, dirOrder>>

add_memory(category, memory_type, content, metadata, agent) ==
    LET memory_data == MemoryData(category, memory_type, content, metadata, agent, now)
    IN  /\ Atomic
        /\ IF CanSave(memory_data)
           THEN /\ files' = _save_memory_file(files, memory_data)
                /\ last' = [op |-> "add_memory", category |-> category,
                            type |-> memory_type, content |-> content,
                            metadata |-> metadata, agent |-> agent, at |-> now,
                            raised |-> ~CanDump(memory_data),
                            result |-> IF CanDump(memory_data)
                                       THEN memory_data.memory_id ELSE None,
                            existed |-> SavePath(memory_data) \in DOMAIN files]
           ELSE /\ files' = files
                /\ last' = [op |-> "add_memory", category |-> category,
                            type |-> memory_type, content |-> content,
                            metadata |-> metadata, agent |-> agent, at |-> now,
                            raised |-> TRUE, result |-> None, existed |-> FALSE]
        /\ UNCHANGED <<now, dirOrder>>

get_memories(category, memory_type, tags, agent, limit) ==
    /\ Atomic
    /\ \E r \in GetMemories(files, dirOrder, category, memory_type, tags, agent, limit) :
          last' = [op |-> "get_memories", category |-> category,
                   type |-> memory_type, tags |-> tags, agent |-> agent,
                   limit |-> limit, at |-> now,
                   raised |-> r.raised, result |-> r.value]
    /\ UNCHANGED <<files, now, dirOrder>>

\* an update that creates the record it does not find
update_memory_upsert(memory_id, updates, agent) ==
    LET memory_file == _find_memory_file(files, dirOrder, memory_id)
        memory == IF memory_file = None
                  THEN Updated([memory_id |-> memory_id, category |-> "shared",
                                type |-> "unknown", content |-> EmptyDict,
                                metadata |-> EmptyDict], updates, agent, now)
                  ELSE Updated(files[memory_file], updates, agent, now)
    IN  /\ Atomic
        /\ files' = _save_memory_file(files, memory)
        /\ last' = [op |-> "update_memory", id |-> memory_id,
                    updates |-> updates, agent |-> agent, at |-> now,
                    raised |-> FALSE, result |-> TRUE,
                    read |-> memory_file, wrote |-> SavePath(memory)]
        /\ UNCHANGED <<now, dirOrder>>

update_memory(memory_id, updates, agent) ==
    LET memory_file == _find_memory_file(files, dirOrder, memory_id)
    IN  /\ Atomic
        /\ IF memory_file = None
           THEN /\ files' = files
                /\ last' = [op |-> "update_memory", id |-> memory_id,
                            updates |-> updates, agent |-> agent, at |-> now,
                            raised |-> FALSE, result |-> FALSE]
           ELSE IF ~IsJson(files[memory_file])
           THEN /\ files' = files
                /\ last' = [op |-> "update_memory", id |-> memory_id,
                            updates |-> updates, agent |-> agent, at |-> now,
                            raised |-> TRUE, result |-> FALSE]
           ELSE LET memory == Updated(files[memory_file], updates, agent, now)
                IN  /\ files' = _save_memory_file(files, memory)
                    /\ last' = [op |-> "update_memory", id |-> memory_id,
                                updates |-> updates, agent |-> agent, at |-> now,
                                raised |-> FALSE, result |-> TRUE,
                                read |-> memory_file, wrote |-> SavePath(memory)]
        /\ UNCHANGED <<now, dirOrder>>

increment_access(memory_id) ==
    LET memory_file == _find_memory_file(files, dirOrder, memory_id)
    IN  /\ Atomic
        /\ IF memory_file = None
           THEN /\ files' = files
                /\ last' = [op |-> "increment_access", id |-> memory_id, at |-> now,
                            raised |-> FALSE, result |-> FALSE]
           ELSE IF ~IsJson(files[memory_file])
           THEN /\ files' = files
                /\ last' = [op |-> "increment_access", id |-> memory_id, at |-> now,
                            raised |-> TRUE, result |-> FALSE]
           ELSE LET memory == Accessed(files[memory_file], now)
                IN  /\ files' = _save_memory_file(files, memory)
                    /\ last' = [op |-> "increment_access", id |-> memory_id,
                                at |-> now, raised |-> FALSE, result |-> TRUE,
                                read |-> memory_file, wrote |-> SavePath(memory)]
        /\ UNCHANGED <<now, dirOrder>>

\* ------------------------------------------------- AgentMemoryIntegration

\* the agents that have a wrapper: AgentMemoryIntegration("sentinel") and
\* AgentMemoryIntegration("primary_developer")
AgentNames == {"sentinel", "primary_developer"}

\* self of a wrapper method: the wrapper constructed for agent_name
AgentMemoryIntegration(agent_name) == agent_name \in AgentNames

\* self.memory_system.add_memory(...) called by the wrapper method `op` of the
\* agent agent_name
StoreVia(op, agent_name, category, memory_type, content, metadata) ==
    LET memory_data == MemoryData(category, memory_type, content, metadata,
                                  agent_name, now)
        saved == CanSave(memory_data) /\ CanDump(memory_data)
    IN  /\ Atomic
        /\ files' = IF CanSave(memory_data)
                    THEN _save_memory_file(files, memory_data) ELSE files
        /\ last' = [op |-> op, wrapper |-> agent_name, category |-> category,
                    type |-> memory_type, content |-> content,
                    metadata |-> metadata, agent |-> agent_name, at |-> now,
                    raised |-> ~saved,
                    result |-> IF saved THEN memory_data.memory_id ELSE None,
                    existed |-> SavePath(memory_data) \in DOMAIN files]
        /\ UNCHANGED <<now, dirOrder>>

\* a store_decision that takes the record's priority from the impact argument
store_decision_by_impact(agent_name, decision, context, impact) ==
    /\ AgentMemoryIntegration(agent_name)
    /\ StoreVia("store_decision", agent_name, "development", "decision",
                    [title |-> "Decision: " \o decision,
                     description |-> "Agent " \o agent_name \o " made decision: " \o decision,
                     context |-> context,
                     tags |-> <<"decision", agent_name>>,
                     priority |-> impact],
                    [agent |-> agent_name, impact |-> impact, lct_criteria |-> None])

store_decision(agent_name, decision, context, impact) ==
    /\ AgentMemoryIntegration(agent_name)
    /\ StoreVia("store_decision", agent_name, "development", "decision",
                    [title |-> "Decision: " \o decision,
                     description |-> "Agent " \o agent_name \o " made decision: " \o decision,
                     context |-> context,
                     tags |-> <<"decision", agent_name>>,
                     priority |-> "medium"],
                    [agent |-> agent_name, impact |-> impact, lct_criteria |-> None])

store_learning(agent_name, learning, pattern) ==
    /\ AgentMemoryIntegration(agent_name)
    /\ StoreVia("store_learning", agent_name, "development", "learning",
                    [title |-> "Learning: " \o learning,
                     description |-> "Agent " \o agent_name \o " learned: " \o learning,
                     context |-> "Pattern: " \o pattern,
                     tags |-> <<"learning", agent_name>>,
                     priority |-> "high"],
                    [agent |-> agent_name, pattern |-> pattern, success_rate |-> 0,
                     lct_criteria |-> None])

store_pattern(agent_name, pattern_name, description) ==
    /\ AgentMemoryIntegration(agent_name)
    /\ StoreVia("store_pattern", agent_name, "development", "pattern",
                    [title |-> "Pattern: " \o pattern_name,
                     description |-> description,
                     context |-> "Code pattern or best practice",
                     tags |-> <<"pattern", agent_name>>,
                     priority |-> "high",
                     code_example |-> None],
                    [agent |-> agent_name, pattern_name |-> pattern_name])

store_user_preference(agent_name, user_id, preference, value) ==
    /\ AgentMemoryIntegration(agent_name)
    /\ StoreVia("store_user_preference", agent_name, "sessions", "preference",
                    [title |-> "User Preference: " \o preference,
                     description |-> "User " \o user_id \o " prefers: "
                                       \o preference \o " = " \o value,
                     context |-> "",
                     tags |-> <<"preference", "user", user_id>>,
                     priority |-> "medium"],
                    [agent |-> agent_name, user_id |-> user_id,
                     preference |-> preference, value |-> value])

\* a retrieve that counts an access for every record it returns
RetrieveVia_counting(op, agent_name, category, memory_type, tags, agent, limit) ==
    /\ Atomic
    /\ \E r \in GetMemories(files, dirOrder, category, memory_type, tags, agent, limit) :
          /\ last' = [op |-> op, wrapper |-> agent_name, category |-> category,
                      type |-> memory_type, tags |-> tags, agent |-> agent,
                      limit |-> limit, at |-> now,
                      raised |-> r.raised, result |-> r.value]
          /\ files' = [p \in DOMAIN files |->
                        IF \E i \in DOMAIN r.value : r.value[i] = files[p]
                        THEN Accessed(files[p], now) ELSE files[p]]
    /\ UNCHANGED <<now, dirOrder>>

\* self.memory_system.get_memories(...) called by the wrapper method `op`
RetrieveVia(op, agent_name, category, memory_type, tags, agent, limit) ==
    /\ Atomic
    /\ \E r \in GetMemories(files, dirOrder, category, memory_type, tags, agent, limit) :
          last' = [op |-> op, wrapper |-> agent_name, category |-> category,
                   type |-> memory_type, tags |-> tags, agent |-> agent,
                   limit |-> limit, at |-> now,
                   raised |-> r.raised, result |-> r.value]
    /\ UNCHANGED <<files, now, dirOrder>>

\* get_relevant_memories: the tags it extracts from the words of the query
QueryTags(query) ==
    SelectSeq(<<"invoice", "validation", "security", "teaching">>,
              LAMBDA tag : InList(tag, query))

get_relevant_memories(agent_name, query, limit) ==
    /\ AgentMemoryIntegration(agent_name)
    /\ RetrieveVia("get_relevant_memories", agent_name,
                       None, None, QueryTags(query), agent_name, limit)

get_user_context(agent_name, user_id) ==
    /\ AgentMemoryIntegration(agent_name)
    /\ RetrieveVia("get_user_context", agent_name,
                       "sessions", "preference", <<user_id>>, None, 10)

\* a learning getter that passes no agent
get_learning_memories_any(agent_name, limit) ==
    /\ AgentMemoryIntegration(agent_name)
    /\ RetrieveVia("get_learning_memories", agent_name,
                       "development", "learning", <<>>, None, limit)

get_learning_memories(agent_name, limit) ==
    /\ AgentMemoryIntegration(agent_name)
    /\ RetrieveVia("get_learning_memories", agent_name,
                       "development", "learning", <<>>, agent_name, limit)

get_pattern_memories(agent_name, limit) ==
    /\ AgentMemoryIntegration(agent_name)
    /\ RetrieveVia("get_pattern_memories", agent_name,
                       "development", "pattern", <<>>, agent_name, limit)

\* update_memory / increment_access up to json.load: the first half of a call
\* made by one of several processes.  Nothing locks the file: the process
\* keeps the document in `memory` while others run.
Load(process, op, memory_id, updates, agent) ==
    LET memory_file == _find_memory_file(files, dirOrder, memory_id)
    IN  /\ Bounded
        /\ held[process].pc # "loaded"
        /\ IF memory_file = None \/ ~IsJson(files[memory_file])
           THEN /\ held' = held
                /\ last' = [op |-> op, id |-> memory_id, at |-> now, process |-> process,
                            raised |-> memory_file # None, result |-> FALSE]
           ELSE /\ held' = [held EXCEPT ![process] =
                                [pc |-> "loaded", op |-> op, id |-> memory_id,
                                 updates |-> updates, agent |-> agent,
                                 file |-> memory_file, memory |-> files[memory_file]]]
                /\ last' = [op |-> "load", id |-> memory_id, at |-> now,
                            process |-> process]
        /\ UNCHANGED <<files, now, dirOrder, run>>

\* a second half that reads the file again before it changes the document
Store_rereading(process) ==
    LET h == held[process]
        current == IF h.file \in DOMAIN files THEN files[h.file] ELSE h.memory
        memory == IF h.op = "update_memory"
                  THEN Updated(current, h.updates, h.agent, now)
                  ELSE Accessed(current, now)
    IN  /\ h.pc = "loaded"
        /\ files' = _save_memory_file(files, memory)
        /\ held' = [held EXCEPT ![process] = [h EXCEPT !.pc = "done"]]
        /\ last' = [op |-> h.op, id |-> h.id, at |-> now, process |-> process,
                    raised |-> FALSE, result |-> TRUE,
                    read |-> h.file, wrote |-> SavePath(memory),
                    recreated |-> SavePath(memory) \notin DOMAIN files]
        /\ UNCHANGED <<now, dirOrder, steps, run>>

\* a second half that writes only where the file it read is still there
Store_if_present(process) ==
    LET h == held[process]
        memory == IF h.op = "update_memory"
                  THEN Updated(h.memory, h.updates, h.agent, now)
                  ELSE Accessed(h.memory, now)
    IN  /\ h.pc = "loaded"
        /\ files' = IF h.file \in DOMAIN files
                    THEN _save_memory_file(files, memory) ELSE files
        /\ held' = [held EXCEPT ![process] = [h EXCEPT !.pc = "done"]]
        /\ last' = [op |-> h.op, id |-> h.id, at |-> now, process |-> process,
                    raised |-> FALSE, result |-> TRUE,
                    read |-> h.file, wrote |-> SavePath(memory),
                    recreated |-> SavePath(memory) \notin DOMAIN files]
        /\ UNCHANGED <<now, dirOrder, steps, run>>

\* update_memory / increment_access from the line after json.load to the
\* return: the document read earlier is changed and written
Store(process) ==
    LET h == held[process]
        memory == IF h.op = "update_memory"
                  THEN Updated(h.memory, h.updates, h.agent, now)
                  ELSE Accessed(h.memory, now)
    IN  /\ h.pc = "loaded"
        /\ files' = _save_memory_file(files, memory)
        /\ held' = [held EXCEPT ![process] = [h EXCEPT !.pc = "done"]]
        /\ last' = [op |-> h.op, id |-> h.id, at |-> now, process |-> process,
                    raised |-> FALSE, result |-> TRUE,
                    read |-> h.file, wrote |-> SavePath(memory),
                    recreated |-> SavePath(memory) \notin DOMAIN files]
        /\ UNCHANGED <<now, dirOrder, steps, run>>

analyze_memory_usage ==
    /\ Atomic
    /\ IF \E p \in DOMAIN files : ~IsJson(files[p])
       THEN last' = [op |-> "analyze_memory_usage", at |-> now,
                     raised |-> TRUE, result |-> None]
       ELSE last' = [op |-> "analyze_memory_usage", at |-> now,
                     raised |-> FALSE, result |-> Stats(files)]
    /\ UNCHANGED <<files, now, dirOrder>>

\* The loop `for memory_file in dir.glob("*.json")` over one directory: the
\* sets of files it can have unlinked when it ends.  It ends after the last
\* file, or at the first file json.load fails on; glob's order is the file
\* system's, so any of the other files may have come before that one.
\* doomed is the set of JSON files the loop's test selects.
Swept(fs, dir, doomed) ==
    IF \A p \in Glob(fs, dir) : IsJson(fs[p])
    THEN {Glob(fs, dir) \cap doomed}
    ELSE {seen \cap doomed :
            seen \in SUBSET {p \in Glob(fs, dir) : IsJson(fs[p])}}

\* the JSON files the low-value test selects
LowValued(fs) == {p \in DOMAIN fs : IsJson(fs[p]) /\ IsLowValue(fs[p])}

\* json.load raises in the loop over dir
Aborts(fs, dir) == \E p \in Glob(fs, dir) : ~IsJson(fs[p])

\* the JSON files an expiry test on content.created_at selects
Expired_by_content(fs, t) ==
    {p \in DOMAIN fs :
        /\ IsJson(fs[p])
        /\ t - Get(Get(fs[p], "content", EmptyDict), "created_at", Epoch) > ExpiryTicks}

\* the JSON files the expiry test selects
Expired(fs, t) == {p \in DOMAIN fs : IsJson(fs[p]) /\ IsExpired(fs[p], t)}

\* cleanup_expired_memories: the sets of files it can have unlinked
ExpiredSets(fs, t) == Swept(fs, "sessions", Expired(fs, t))

\* a low-value sweep over every directory of memory/
LowValueSets_everywhere(fs) == {LowValued(fs)}

\* cleanup_low_value_memories: the sets of files it can have unlinked.
\* `for category in ["development", "sessions"]`: sessions is reached only when
\* the loop over development ended without an error
LowValueSets(fs) ==
    {dev \cup ses :
        dev \in Swept(fs, "development", LowValued(fs)),
        ses \in IF Aborts(fs, "development") THEN {{}}
                ELSE Swept(fs, "sessions", LowValued(fs))}

cleanup_expired_memories ==
    /\ Atomic
    /\ \E expired \in ExpiredSets(files, now) :
          /\ files' = Unlink(files, expired)
          /\ last' = [op |-> "cleanup_expired_memories", at |-> now,
                      raised |-> Aborts(files, "sessions"),
                      removed |-> [p \in expired |-> files[p]],
                      expired_count |-> Cardinality(expired)]
    /\ UNCHANGED <<now, dirOrder>>

cleanup_low_value_memories ==
    /\ Atomic
    /\ \E removed \in LowValueSets(files) :
              /\ files' = Unlink(files, removed)
              /\ last' = [op |-> "cleanup_low_value_memories", at |-> now,
                          raised |-> \E c \in LowValueCategories : Aborts(files, c),
                          removed |-> [p \in removed |-> files[p]],
                          removed_count |-> [c \in LowValueCategories |->
                                              Cardinality({p \in removed : p[1] = c})]]
    /\ UNCHANGED <<now, dirOrder>>

\* one call, or one advance of the clock
Next ==
    \/ \E d \in TickSizes : Tick(d)
    \/ \E category \in AddCategories, memory_type \in Types, input \in AddInputs,
          agent \in AddAgents :
            add_memory(category, memory_type, input.content, input.metadata, agent)
    \/ \E q \in Queries, limit \in Limits :
            get_memories(q.category, q.type, q.tags, q.agent, limit)
    \/ \E memory_id \in TargetIds(files), updates \in UpdateSets,
          agent \in UpdateAgents :
            update_memory(memory_id, updates, agent)
    \/ \E memory_id \in TargetIds(files) : increment_access(memory_id)
    \/ analyze_memory_usage
    \/ cleanup_expired_memories
    \/ cleanup_low_value_memories

Spec == Init /\ [][Next]_vars

\* The store when a caller also passes a content that json.dump cannot encode:
\* creates into the swept categories, accesses, the clock and the two sweeps.
NextMalformed ==
    \/ \E d \in TickSizes : Tick(d)
    \/ \E category \in LowValueCategories, memory_type \in Types,
          input \in AddInputs \cup {[content |-> OpaqueContent, metadata |-> EmptyDict]},
          agent \in AddAgents :
            add_memory(category, memory_type, input.content, input.metadata, agent)
    \/ \E memory_id \in TargetIds(files) : increment_access(memory_id)
    \/ cleanup_expired_memories
    \/ cleanup_low_value_memories

SpecMalformed == Init /\ [][NextMalformed]_vars

\* Two processes use memory/ at once: each call of update_memory and
\* increment_access is a load and a store, and creates, sweeps and the other
\* process's halves run between the two.
NextConcurrent ==
    \/ \E d \in TickSizes : Tick(d)
    \/ \E input \in AddInputs, memory_type \in Types, agent \in AddAgents :
            add_memory("sessions", memory_type, input.content, input.metadata, agent)
    \/ \E process \in Processes, memory_id \in TargetIds(files) :
            Load(process, "increment_access", memory_id, EmptyDict, None)
    \/ \E process \in Processes, memory_id \in TargetIds(files),
          agent \in UpdateAgents :
            Load(process, "update_memory", memory_id, PriorityLow, agent)
    \/ \E process \in Processes : Store(process)
    \/ cleanup_expired_memories
    \/ cleanup_low_value_memories

SpecConcurrent == Init /\ [][NextConcurrent]_vars

\* store_decision's impact argument
Impacts == {"low", "high"}

\* the words of a get_relevant_memories query: none of the four known, or two
RelevantQueries == { <<"status">>, <<"invoice", "security">> }

\* The store used through the agent wrappers, with updates and the low-value
\* sweep.
NextAgents ==
    \/ Tick(ExpiryTicks)
    \/ \E agent_name \in AgentNames, impact \in Impacts :
            store_decision(agent_name, "cache", "review", impact)
    \/ \E agent_name \in AgentNames :
            store_learning(agent_name, "retry", "backoff")
    \/ \E agent_name \in AgentNames :
            store_pattern(agent_name, "guard", "check first")
    \/ \E agent_name \in AgentNames :
            store_user_preference(agent_name, "u1", "style", "terse")
    \/ \E agent_name \in AgentNames, query \in RelevantQueries :
            get_relevant_memories(agent_name, query, 5)
    \/ \E agent_name \in AgentNames : get_user_context(agent_name, "u1")
    \/ \E agent_name \in AgentNames : get_learning_memories(agent_name, 10)
    \/ \E agent_name \in AgentNames : get_pattern_memories(agent_name, 10)
    \/ \E limit \in Limits : get_memories("development", "decision", <<>>, None, limit)
    \/ analyze_memory_usage
    \/ \E memory_id \in TargetIds(files), agent \in UpdateAgents :
            update_memory(memory_id, PriorityLow, agent)
    \/ cleanup_low_value_memories

SpecAgents == Init /\ [][NextAgents]_vars

\* ------------------------------------------------------- the test scripts

\* test_memory_system.py, test_memory_structure: every required directory of
\* memory/ exists
required_dirs == {"project", "development", "sessions", "shared", "agents"}

test_memory_structure(present) == required_dirs \subseteq present

\* test_memory_system.py, test_initial_memories: memory/project holds a file
test_initial_memories(memory_files) == memory_files # {}

\* test_memory_system.py run to its exit: `present` are the directories of
\* memory/ that exist, `memory_files` what memory/project/*.json yields (none
\* where create_initial_memories has not run)
test_memory_system(present, memory_files) ==
    /\ run.state \in {"none", "exited"}
    /\ "project" \notin present => memory_files = {}
    /\ LET passed == test_memory_structure(present)
                     /\ test_initial_memories(memory_files)
       IN  run' = [script |-> "test_memory_system", state |-> "exited",
                   passed |-> IF passed THEN 2 ELSE 0,
                   failed |-> IF passed THEN 0 ELSE 1,
                   warnings |-> 0,
                   exit |-> IF passed THEN 0 ELSE 1]
    /\ UNCHANGED <<files, now, dirOrder, last, steps, held>>

\* test-complete-system.py, run_all_tests: the checks in the order they run
SystemTests ==
    <<"Agent Documentation", "Memory System Structure",
      "Memory System Functionality", "Agent Configurations", "Setup Scripts",
      "Pre-commit Hook", "Memory Analytics", "Memory Cleanup",
      "Agent Memory Integration", "Initial Memories", "Team Onboarding Docs">>

\* the checks that read a file outside a try block of their own
Raising ==
    {"Agent Configurations", "Pre-commit Hook", "Initial Memories",
     "Team Onboarding Docs"}

\* what test_func() can do: return True, return False or raise
Outcomes(test_name) ==
    IF test_name \in Raising THEN {"True", "False", "raise"}
    ELSE {"True", "False"}

\* test-complete-system.py starts: main() builds the tester
LCTSystemTester ==
    /\ run.state \in {"none", "exited"}
    /\ run' = [script |-> "test-complete-system", state |-> "running",
               next |-> 1, passed |-> 0, failed |-> 0, warnings |-> 0]
    /\ UNCHANGED <<files, now, dirOrder, last, steps, held>>

\* run_test(test_name, test_func) for the next check of run_all_tests
run_test(outcome) ==
    /\ run.state = "running"
    /\ run.next \in DOMAIN SystemTests
    /\ outcome \in Outcomes(SystemTests[run.next])
    /\ run' = [run EXCEPT
                 !.next = @ + 1,
                 !.passed = IF outcome = "True" THEN @ + 1 ELSE @,
                 !.failed = IF outcome = "False" THEN @ + 1 ELSE @,
                 !.warnings = IF outcome = "raise" THEN @ + 1 ELSE @]
    /\ UNCHANGED <<files, now, dirOrder, last, steps, held>>

\* print_results, the return of main() and the end of the script: the tallies
\* are printed and saved to test_results.json, and the interpreter exits with
\* the status of a script that ran to its last line
print_results ==
    /\ run.state = "running"
    /\ run.next = Len(SystemTests) + 1
    /\ run' = [script |-> run.script, state |-> "exited",
               passed |-> run.passed, failed |-> run.failed,
               warnings |-> run.warnings, exit |-> 0]
    /\ UNCHANGED <<files, now, dirOrder, last, steps, held>>

\* the two test scripts, run one after the other in any order
NextTests ==
    \/ \E present \in SUBSET required_dirs :
          \E memory_files \in {Glob(files, "project"), {}} :
             test_memory_system(present, memory_files)
    \/ LCTSystemTester
    \/ \E outcome \in {"True", "False", "raise"} : run_test(outcome)
    \/ print_results

SpecTests == Init /\ [][NextTests]_vars

\* ------------------------------------------------------------- the claims

\* the keys add_memory stamps into content
Stamps == {"created_at", "last_updated", "access_count"}

\* the document a lookup by id reads
Located(fs, order, memory_id) == fs[_find_memory_file(fs, order, memory_id)]

\* some tag of the request is among the document's tags
TagsIntersect(doc, tags) ==
    \E i \in DOMAIN tags : \E j \in DOMAIN doc.content.tags :
        doc.content.tags[j] = tags[i]

Elements(s) == {s[i] : i \in DOMAIN s}

Min(a, b) == IF a < b THEN a ELSE b

\* C1: a create immediately followed by a retrieve filtered to the same
\* category and type returns a record whose content, the stamped created_at,
\* last_updated and access_count apart, is the content passed to create.
C1_RoundTrip ==
    [][ ( /\ last.op = "add_memory" /\ ~last.raised
          /\ last'.op = "get_memories"
          /\ last'.category = last.category /\ last'.type = last.type
          /\ last'.tags = <<>> /\ last'.agent = None )
        => ( /\ ~last'.raised
             /\ \E i \in DOMAIN last'.result :
                    /\ last'.result[i].memory_id = last.result
                    /\ Without(last'.result[i].content, Stamps)
                         = Without(last.content, Stamps) ) ]_vars

\* C2: a retrieve with a non-empty tag list and no other filter returns, up to
\* limit, every stored record with at least one requested tag, and no record
\* whose tags are disjoint from the requested ones.
C2_TagOr ==
    ( /\ last.op = "get_memories" /\ last.tags # <<>>
      /\ last.category = None /\ last.type = None /\ last.agent = None )
    => LET hits == {p \in DOMAIN files :
                        p[1] \in ScanDirs /\ TagsIntersect(files[p], last.tags)}
       IN  /\ ~last.raised
           /\ \A i \in DOMAIN last.result : TagsIntersect(last.result[i], last.tags)
           /\ Elements(last.result) \subseteq {files[p] : p \in hits}
           /\ Len(last.result) = Min(last.limit, Cardinality(hits))

\* the stored records that pass the filters of the retrieve recorded in last
Passing ==
    {files[p] : p \in {q \in DOMAIN files :
        /\ IF last.category # None THEN q[1] = last.category ELSE q[1] \in ScanDirs
        /\ last.category # None => files[q].category = last.category
        /\ last.type # None => files[q].type = last.type
        /\ last.agent # None =>
              ("agent" \in DOMAIN files[q].metadata /\ files[q].metadata.agent = last.agent)
        /\ last.tags # <<>> => TagsIntersect(files[q], last.tags)}}

\* C3: a retrieve returns the matching records newest first by
\* content.created_at, cut to the first `limit`.
C3_Ordering ==
    last.op = "get_memories"
    => /\ ~last.raised
       /\ Elements(last.result) \subseteq Passing
       /\ Len(last.result) = Min(last.limit, Cardinality(Passing))
       /\ \A i, j \in DOMAIN last.result :
            i < j => last.result[i].content.created_at
                        >= last.result[j].content.created_at
       /\ \A m \in Passing \ Elements(last.result) :
            \A i \in DOMAIN last.result :
                m.content.created_at <= last.result[i].content.created_at

\* C4: a successful update with {content: {priority: "low"}} sets the record's
\* content.priority to "low" and its last_updated to the time of the update, and
\* leaves its other content keys, its metadata, memory_id, category and type as
\* they were; whatever the updates, a key they do not name (the stamps
\* last_updated and last_updated_by apart) keeps its value.
C4_UpdateMerge ==
    [][ (last'.op = "update_memory" /\ last'.result)
        => LET before == Located(files, dirOrder, last'.id)
               after == Located(files', dirOrder, last'.id)
               named(part) == IF part \in DOMAIN last'.updates
                              THEN DOMAIN last'.updates[part] ELSE {}
           IN  /\ after.memory_id = before.memory_id
               /\ after.category = before.category
               /\ after.type = before.type
               /\ Without(after.content, named("content") \cup {"last_updated"})
                    = Without(before.content, named("content") \cup {"last_updated"})
               /\ Without(after.metadata, named("metadata") \cup {"last_updated_by"})
                    = Without(before.metadata, named("metadata") \cup {"last_updated_by"})
               /\ last'.updates = PriorityLow
                    => /\ after.content.priority = "low"
                       /\ after.content.last_updated = now
                       /\ after.metadata = before.metadata ]_vars

\* C5: every successful increment_access raises the record's access_count (0
\* when missing) by exactly 1 and sets last_accessed no earlier than it was, so
\* the count is strictly greater after each call.
C5_AccessMonotone ==
    [][ (last'.op = "increment_access" /\ last'.result)
        => LET before == Located(files, dirOrder, last'.id).content
               after == Located(files', dirOrder, last'.id).content
           IN  /\ "access_count" \in DOMAIN after
               /\ after.access_count = Get(before, "access_count", 0) + 1
               /\ "last_accessed" \in DOMAIN after
               /\ after.last_accessed = now
               /\ "last_accessed" \in DOMAIN before
                    => before.last_accessed <= after.last_accessed ]_vars

\* C6: a sessions record created less than 24 hours before the expiry sweep
\* is still stored after it.
C6_ExpiryRetains ==
    [][ last'.op = "cleanup_expired_memories"
        => \A p \in Glob(files, "sessions") :
              ( /\ "created_at" \in DOMAIN files[p].content
                /\ now - files[p].content.created_at < ExpiryTicks )
              => p \in DOMAIN files' ]_vars

\* the creation time of a record: content.created_at, the epoch when it has none
CreationTime(doc) == Get(doc.content, "created_at", Epoch)

\* C7: after an expiry sweep no sessions record is left whose creation time,
\* the epoch for a record that has none, is more than 24 hours before the sweep.
C7_ExpiryDeletes ==
    last.op = "cleanup_expired_memories"
    => \A p \in Glob(files, "sessions") :
          ~(last.at - CreationTime(files[p]) > ExpiryTicks)

\* C7 witness: the sweep has just removed a sessions record older than 24 hours
C7_Witness ==
    /\ last.op = "cleanup_expired_memories"
    /\ \E p \in DOMAIN last.removed :
          /\ p[1] = "sessions"
          /\ "created_at" \in DOMAIN last.removed[p].content
          /\ last.at - last.removed[p].content.created_at > ExpiryTicks

\* the low-value test as the claim words it
LowValueRecord(doc) ==
    /\ doc.category \in {"development", "sessions"}
    /\ Get(doc.content, "access_count", 0) < 2
    /\ Get(doc.content, "priority", "medium") = "low"

\* C8: the low-value sweep deletes a record if and only if it is of the
\* development or sessions category, its access_count (0 when missing) is below
\* 2 and its priority ("medium" when missing) is "low"; it adds and changes none.
C8_LowValueBoundary ==
    [][ last'.op = "cleanup_low_value_memories"
        => /\ DOMAIN files' \subseteq DOMAIN files
           /\ \A p \in DOMAIN files :
                IF LowValueRecord(files[p])
                THEN p \notin DOMAIN files'
                ELSE p \in DOMAIN files' /\ files'[p] = files[p] ]_vars

\* C8 witness: the sweep has just removed a record with access_count 1 and
\* priority low, and kept, in a swept directory, a record whose access_count
\* is below 2 but whose priority is not low
C8_Witness ==
    /\ last.op = "cleanup_low_value_memories"
    /\ \E p \in DOMAIN last.removed :
          /\ last.removed[p].category \in {"development", "sessions"}
          /\ last.removed[p].content.priority = "low"
          /\ Get(last.removed[p].content, "access_count", 0) = 1
    /\ \E p \in DOMAIN files :
          /\ files[p].category \in {"development", "sessions"}
          /\ Get(files[p].content, "priority", "medium") # "low"
          /\ Get(files[p].content, "access_count", 0) < LowValueAccess

\* C9: the access_count of a stored record never decreases, and changes only
\* by an increment_access of that record.
C9_AccessCountOnlyIncrements ==
    [][ \A p \in (DOMAIN files) \cap (DOMAIN files') :
          LET old == Get(files[p].content, "access_count", 0)
              new == Get(files'[p].content, "access_count", 0)
          IN  /\ new >= old
              /\ new # old => (last'.op = "increment_access" /\ last'.id = p[2]) ]_vars

\* C10: no update changes the content.created_at that create has set.
C10_CreatedAtFixed ==
    [][ last'.op = "update_memory"
        => \A p \in (DOMAIN files) \cap (DOMAIN files') :
              "created_at" \in DOMAIN files[p].content
              => /\ "created_at" \in DOMAIN files'[p].content
                 /\ files'[p].content.created_at = files[p].content.created_at ]_vars

\* C11: content.last_updated is the time of creation after a create, and the
\* time of the update after every update that returns true, whatever the
\* updates hold (the record meant is the file the call wrote).
C11_LastUpdatedStamped ==
    [][ /\ (last'.op = "add_memory" /\ ~last'.raised)
            => files'[<<last'.category, last'.result>>].content.last_updated = last'.at
        /\ (last'.op = "update_memory" /\ ~last'.raised /\ last'.result)
            => /\ "last_updated" \in DOMAIN files'[last'.wrote].content
               /\ files'[last'.wrote].content.last_updated = last'.at ]_vars

\* C12: no record id has files in two category directories, and a successful
\* update or increment_access writes the very file it located.
C12_OneDirectory ==
    /\ \A p, q \in DOMAIN files : p[2] = q[2] => p[1] = q[1]
    /\ (last.op \in {"update_memory", "increment_access"} /\ ~last.raised /\ last.result)
          => last.wrote = last.read

\* C13: every stored record's memory_id is the stem of the file that holds it.
C13_IdIsStem == \A p \in DOMAIN files : files[p].memory_id = p[2]

\* C13 witness: beside the bootstrap records the store holds a record that
\* create wrote, and an update or increment_access has just rewritten a record
C13_Witness ==
    /\ last.op \in {"update_memory", "increment_access"} /\ ~last.raised /\ last.result
    /\ \E p \in DOMAIN files : p[2] = initial_memories[1].memory_id
    /\ \E p \in DOMAIN files : "created_by" \in DOMAIN files[p].metadata

\* C14: update and increment_access called with an id that no file of a
\* non-reserved directory bears return false, do not raise, and leave every
\* file as it was.
C14_NotFound ==
    [][ ( /\ last'.op \in {"update_memory", "increment_access"}
          /\ _find_memory_file(files, dirOrder, last'.id) = None )
        => ( /\ ~last'.raised
             /\ last'.result = FALSE
             /\ files' = files ) ]_vars

\* C14 witness: an update of an id without a file has just returned false
C14_Witness ==
    /\ last.op = "update_memory"
    /\ last.id = UnknownId
    /\ \A p \in DOMAIN files : p[2] # UnknownId
    /\ last.result = FALSE

\* C15: a retrieve for a category whose directory was never created returns
\* the empty list, an update or increment_access of an id of such a category
\* returns false, and none of them raises.
C15_MissingDirectory ==
    /\ ( /\ last.op = "get_memories"
         /\ last.category # None /\ last.category \notin Directories )
       => (~last.raised /\ last.result = <<>>)
    /\ ( /\ last.op \in {"update_memory", "increment_access"}
         /\ last.id = UnknownId )
       => (~last.raised /\ last.result = FALSE)

\* C15 witness: a retrieve for the category without a directory has returned
C15_Witness ==
    /\ last.op = "get_memories"
    /\ last.category = "archive"
    /\ "archive" \notin Directories
    /\ ~last.raised

\* C16: a sweep does not abort on a file that is not JSON: it ends without an
\* error, leaves that file, and has evaluated every other file of the scanned
\* categories (deleted exactly those its test selects).
C16_SweepSkipsMalformed ==
    [][ /\ last'.op = "cleanup_expired_memories"
            => /\ ~last'.raised
               /\ \A p \in Glob(files, "sessions") :
                    IF IsJson(files[p])
                    THEN (p \notin DOMAIN files') <=> IsExpired(files[p], now)
                    ELSE p \in DOMAIN files'
               /\ last'.expired_count
                    = Cardinality((DOMAIN files) \ (DOMAIN files'))
        /\ last'.op = "cleanup_low_value_memories"
            => /\ ~last'.raised
               /\ \A p \in Glob(files, "development") \cup Glob(files, "sessions") :
                    IF IsJson(files[p])
                    THEN (p \notin DOMAIN files') <=> IsLowValue(files[p])
                    ELSE p \in DOMAIN files' ]_vars

\* the two maintenance sweeps
Sweeps == {"cleanup_expired_memories", "cleanup_low_value_memories"}

\* C17: no step other than a sweep removes a record file; the set of stored
\* files, and with it the set of stored ids, shrinks only in a sweep.
C17_DeletionOnlyInSweeps ==
    [][ last'.op \notin Sweeps
        => /\ (DOMAIN files) \subseteq (DOMAIN files')
           /\ {p[2] : p \in DOMAIN files} \subseteq {p[2] : p \in DOMAIN files'} ]_vars

\* C17 witness: a sweep has removed a record, and the store still holds a
\* record that an update or increment_access rewrote after create wrote it
C17_Witness ==
    /\ last.op \in Sweeps
    /\ DOMAIN last.removed # {}
    /\ \E p \in DOMAIN files :
          /\ "created_by" \in DOMAIN files[p].metadata
          /\ \/ "last_accessed" \in DOMAIN files[p].content
             \/ files[p].metadata.last_updated_by # files[p].metadata.created_by
             \/ files[p].content.last_updated # files[p].content.created_at
             \/ files[p].content.created_at = Epoch

\* the files of the scanned directories whose record passes every filter of the
\* retrieve recorded in last
PassingPaths ==
    {q \in DOMAIN files :
        /\ IF last.category # None THEN q[1] = last.category ELSE q[1] \in ScanDirs
        /\ last.category # None => files[q].category = last.category
        /\ last.type # None => files[q].type = last.type
        /\ last.agent # None =>
              ("agent" \in DOMAIN files[q].metadata /\ files[q].metadata.agent = last.agent)
        /\ last.tags # <<>> => TagsIntersect(files[q], last.tags)}

C19_LastUpdatedBy ==
    [][ (last'.op = "update_memory" /\ ~last'.raised /\ last'.result)
        => /\ "last_updated_by" \in DOMAIN files'[last'.wrote].metadata
           /\ files'[last'.wrote].metadata.last_updated_by = last'.agent ]_vars

\* the metadata keys add_memory stamps with the agent argument
AgentStamps == {"agent", "created_by", "last_updated_by"}

\* C20: the record a create stores has in metadata every key the caller
\* supplied with the caller's value, and agent, created_by and last_updated_by
\* equal to the agent argument where the caller supplied none.
C20_MetadataOverlay ==
    (last.op = "add_memory" /\ ~last.raised)
    => LET m == files[<<last.category, last.result>>].metadata
       IN  /\ DOMAIN m = AgentStamps \cup DOMAIN last.metadata
           /\ \A k \in DOMAIN last.metadata : m[k] = last.metadata[k]
           /\ \A k \in AgentStamps \ DOMAIN last.metadata : m[k] = last.agent

\* C20 witness: a create whose metadata names another agent than its agent
\* argument has stored the caller's value
C20_Witness ==
    /\ last.op = "add_memory" /\ ~last.raised
    /\ "agent" \in DOMAIN last.metadata
    /\ last.metadata.agent # last.agent
    /\ files[<<last.category, last.result>>].metadata.agent = last.metadata.agent
    /\ files[<<last.category, last.result>>].metadata.created_by = last.agent

\* the clock second of a tick
Second(t) == t \div TicksPerSecond

\* C21: a create in the clock second in which a stored record of its category
\* and type was created returns that record's id; a create whose id is already
\* on file replaces that file with its own fresh record (access_count 0), so
\* the number of files does not grow.
C21_IdCollision ==
    [][ /\ ( last'.op = "add_memory" /\ ~last'.raised )
           => \A p \in DOMAIN files :
                ( /\ p[1] = last'.category
                  /\ files[p].category = last'.category
                  /\ files[p].type = last'.type
                  /\ "created_by" \in DOMAIN files[p].metadata
                  /\ Second(files[p].content.created_at) = Second(last'.at) )
                => ( /\ last'.result = p[2]
                     /\ last'.existed
                     /\ Cardinality(DOMAIN files') = Cardinality(DOMAIN files) )
        /\ ( last'.op = "add_memory" /\ ~last'.raised /\ last'.existed )
           => LET path == <<last'.category, last'.result>>
              IN  /\ DOMAIN files' = DOMAIN files
                  /\ \A p \in (DOMAIN files) \ {path} : files'[p] = files[p]
                  /\ Without(files'[path].content, Stamps) = last'.content
                  /\ files'[path].content.access_count = 0
                  /\ files'[path].content.created_at = last'.at ]_vars

\* C21 witness: a create has just replaced a record of another content, made
\* earlier in the same second
C21_Witness ==
    /\ last.op = "add_memory" /\ ~last.raised /\ last.existed
    /\ last.at # Second(last.at) * TicksPerSecond
    /\ LET path == <<last.category, last.result>>
       IN  /\ files[path].content.created_at = last.at
           /\ Cardinality({p \in DOMAIN files : "created_by" \in DOMAIN files[p].metadata}) = 1

\* C22: the second half of increment_access writes the count the process read
\* plus 1, and the second half of update_memory the document the process read
\* with its updates, whatever another process wrote to the file in between.
C22_WriteFromStaleRead ==
    [][ \A i \in Processes :
          (held[i].pc = "loaded" /\ held'[i].pc = "done")
          => LET read == held[i].memory
                 written == files'[<<read.category, read.memory_id>>]
             IN  IF held[i].op = "increment_access"
                 THEN /\ written.content.access_count
                            = Get(read.content, "access_count", 0) + 1
                      /\ Without(written.content, {"access_count", "last_accessed"})
                            = Without(read.content, {"access_count", "last_accessed"})
                 ELSE Without(written.content,
                              DOMAIN held[i].updates.content \cup {"last_updated"})
                        = Without(read.content,
                                  DOMAIN held[i].updates.content \cup {"last_updated"}) ]_vars

\* C22 witness, the lost update: both processes have completed an
\* increment_access of the same created record, each had read the same count,
\* and the file's count is that count plus 1
C22_Witness ==
    /\ \A i \in Processes : held[i].pc = "done" /\ held[i].op = "increment_access"
    /\ held["p1"].id = held["p2"].id
    /\ held["p1"].file = held["p2"].file
    /\ "created_by" \in DOMAIN held["p1"].memory.metadata
    /\ held["p1"].memory.content.access_count = held["p2"].memory.content.access_count
    /\ held["p1"].file \in DOMAIN files
    /\ files[held["p1"].file].content.access_count
          = held["p1"].memory.content.access_count + 1

\* the operations that only read: get_memories, the wrapper getters built on
\* it, and the analytics aggregation
ReadOps ==
    {"get_memories", "get_relevant_memories", "get_user_context",
     "get_learning_memories", "get_pattern_memories", "analyze_memory_usage"}

\* C23: a retrieve, a wrapper getter or the analytics aggregation leaves every
\* record file as it was (access_count and last_accessed included) and creates
\* and removes none.
C23_ReadsObserveOnly ==
    [][ last'.op \in ReadOps => files' = files ]_vars

\* C23 witness: a wrapper getter has just returned a record that is on file,
\* and the file counts no access
C23_Witness ==
    /\ last.op \in ReadOps \ {"get_memories", "analyze_memory_usage"}
    /\ ~last.raised
    /\ Len(last.result) > 0
    /\ \E p \in DOMAIN files :
          /\ files[p] = last.result[1]
          /\ files[p].content.access_count = 0
          /\ "last_accessed" \notin DOMAIN files[p].content

\* C24: a retrieve raises exactly when a record that passes all its filters
\* has no content.created_at; records without it that the filters reject do
\* not make it fail.
C24_RaisesOnUndatedMatch ==
    last.op = "get_memories"
    => ( last.raised
         <=> \E q \in PassingPaths : "created_at" \notin DOMAIN files[q].content )

\* C24 witness: a retrieve has returned records although a scanned directory
\* holds a bootstrap record without created_at that has a requested tag and is
\* rejected for its agent
C24_Witness ==
    /\ last.op = "get_memories" /\ ~last.raised
    /\ Len(last.result) > 0
    /\ last.category = None /\ last.tags # <<>>
    /\ \E q \in DOMAIN files :
          /\ q[1] \in ScanDirs
          /\ "created_at" \notin DOMAIN files[q].content
          /\ TagsIntersect(files[q], last.tags)
          /\ q \notin PassingPaths

\* the stores an expiry sweep can leave, and those a low-value sweep can leave
AfterExpiry(fs, t) == {Unlink(fs, e) : e \in ExpiredSets(fs, t)}
AfterLowValue(fs) == {Unlink(fs, l) : l \in LowValueSets(fs)}

\* C25: from every store state, with the clock fixed, the expiry sweep
\* followed by the low-value sweep leaves the store that the low-value sweep
\* followed by the expiry sweep leaves: the store without the sessions records
\* the expiry test selects and without the development and sessions records
\* the low-value test selects.
C25_SweepsCommute ==
    LET expiry_first == UNION {AfterLowValue(fs) : fs \in AfterExpiry(files, now)}
        low_value_first == UNION {AfterExpiry(fs, now) : fs \in AfterLowValue(files)}
        selected == {p \in Glob(files, "sessions") : IsExpired(files[p], now)}
                    \cup {p \in Glob(files, "development") \cup Glob(files, "sessions") :
                            IsLowValue(files[p])}
    IN  /\ expiry_first = low_value_first
        /\ expiry_first = {Unlink(files, selected)}

\* C25 witness: the store holds a development record only the low-value test
\* selects, a sessions record only the expiry test selects, and a development
\* record neither selects
C25_Witness ==
    /\ \E p \in Glob(files, "development") : IsLowValue(files[p])
    /\ \E p \in Glob(files, "sessions") :
          IsExpired(files[p], now) /\ ~IsLowValue(files[p])
    /\ \E p \in Glob(files, "development") : ~IsLowValue(files[p])

\* C26: a test script that has exited has exit status 0 when every check
\* passed and a non-zero exit status when at least one check failed.
C26_ExitStatus ==
    run.state = "exited" => (run.exit = 0 <=> run.failed = 0)

\* the directories, and category values, no sweep may touch
Protected == {"project", "shared"}

\* C27: the expiry sweep removes only files of sessions/, the low-value sweep
\* only files of development/ and sessions/, each holding a record of that
\* category; a file in project/ or shared/, or a record whose category is
\* project or shared, is left as it was by either sweep.
C27_SweepsConfined ==
    [][ last'.op \in Sweeps
        => LET removed == (DOMAIN files) \ (DOMAIN files')
           IN  /\ last'.op = "cleanup_expired_memories"
                    => \A p \in removed :
                          p[1] = "sessions" /\ files[p].category = "sessions"
               /\ last'.op = "cleanup_low_value_memories"
                    => \A p \in removed :
                          /\ p[1] \in {"development", "sessions"}
                          /\ files[p].category \in {"development", "sessions"}
               /\ \A p \in DOMAIN files :
                     (p[1] \in Protected \/ files[p].category \in Protected)
                        => p \in DOMAIN files' /\ files'[p] = files[p] ]_vars

\* C27 witness: a low-value sweep has removed a record while project/ holds a
\* record its test selects
C27_Witness ==
    /\ last.op = "cleanup_low_value_memories"
    /\ DOMAIN last.removed # {}
    /\ \E p \in Glob(files, "project") :
          files[p].category = "project" /\ IsLowValue(files[p])

\* C28: when the file an update or increment_access read has been deleted by
\* a sweep before the call writes, the write puts the file back at the same
\* path, holding the document the call read with the call's changes.
C28_WriteUndoesDelete ==
    [][ \A process \in Processes :
          LET h == held[process]
          IN  (/\ h.pc = "loaded"
               /\ held'[process].pc = "done"
               /\ h.file \notin DOMAIN files)
              => /\ h.file \in DOMAIN files'
                 /\ files'[h.file] =
                       IF h.op = "update_memory"
                       THEN Updated(h.memory, h.updates, h.agent, now)
                       ELSE Accessed(h.memory, now)
                 /\ files'[h.file].memory_id = h.id ]_vars

\* C28 witness: an update or increment_access has written a file that a sweep
\* had removed after the call read it
C28_Witness ==
    /\ last.op \in {"update_memory", "increment_access"}
    /\ "recreated" \in DOMAIN last
    /\ last.recreated
    /\ last.read = last.wrote
    /\ last.wrote \in DOMAIN files
    /\ \E process \in Processes :
          held[process].pc = "done" /\ held[process].file = last.wrote

\* the wrapper methods that ask for the wrapper's own records
OwnGetters ==
    {"get_relevant_memories", "get_learning_memories", "get_pattern_memories"}

\* the wrapper methods that store a record
Storers ==
    {"store_decision", "store_learning", "store_pattern", "store_user_preference"}

\* C29: get_relevant_memories, get_learning_memories and get_pattern_memories
\* of an agent's wrapper return only records whose metadata.agent is that
\* agent's name, and the record a store_* method of a wrapper has written
\* carries metadata.agent equal to the wrapper's agent name.
C29_AgentIsolation ==
    /\ (last.op \in OwnGetters /\ ~last.raised)
          => \A i \in DOMAIN last.result :
                Get(Get(last.result[i], "metadata", EmptyDict), "agent", None)
                   = last.wrapper
    /\ (last.op \in Storers /\ ~last.raised)
          => \E p \in DOMAIN files :
                /\ p[2] = last.result
                /\ files[p].memory_id = last.result
                /\ Get(files[p].metadata, "agent", None) = last.wrapper

\* C29 witness: a wrapper's getter has returned a record while the store holds
\* a record of another agent's wrapper that passes the getter's category and
\* type filters
C29_Witness ==
    /\ last.op \in OwnGetters
    /\ ~last.raised
    /\ last.result # <<>>
    /\ \E p \in DOMAIN files :
          /\ Get(files[p].metadata, "agent", None) \in AgentNames \ {last.wrapper}
          /\ last.category # None => files[p].category = last.category
          /\ last.type # None => files[p].type = last.type

\* a record an agent wrapper stored
WrapperStored(memory) ==
    Get(Get(memory, "metadata", EmptyDict), "agent", None) \in AgentNames

\* the record's content.priority
Priority(memory) == Get(Get(memory, "content", EmptyDict), "priority", None)

\* C30: the record a store_* method of a wrapper writes has content.priority
\* medium or high whatever the impact argument; a wrapper-stored record comes
\* to have priority "low" only in an update whose updates set it; and the
\* low-value sweep removes a wrapper-stored record only when its priority is
\* "low".
C30_WrapperPriority ==
    [][ /\ (last'.op \in Storers /\ ~last'.raised /\ steps' # steps)
            => \A p \in DOMAIN files' :
                  p[2] = last'.result
                     => Priority(files'[p]) \in {"medium", "high"}
        /\ \A p \in DOMAIN files' :
              (/\ WrapperStored(files'[p])
               /\ Priority(files'[p]) = "low"
               /\ ~(p \in DOMAIN files /\ Priority(files[p]) = "low"))
              => /\ last'.op = "update_memory"
                 /\ last'.id = p[2]
                 /\ Priority(last'.updates) = "low"
        /\ last'.op = "cleanup_low_value_memories"
            => \A p \in (DOMAIN files) \ (DOMAIN files') :
                  WrapperStored(files[p]) => Priority(files[p]) = "low" ]_vars

\* C30 witness: a low-value sweep has removed a wrapper-stored record that an
\* update had given priority "low", and has left a wrapper-stored record that
\* was never read
C30_Witness ==
    /\ last.op = "cleanup_low_value_memories"
    /\ \E p \in DOMAIN last.removed :
          WrapperStored(last.removed[p]) /\ Priority(last.removed[p]) = "low"
    /\ \E p \in DOMAIN files :
          /\ p[1] \in LowValueCategories
          /\ WrapperStored(files[p])
          /\ Get(files[p].content, "access_count", 0) < LowValueAccess

====
